---- MODULE Spec2Model ----
(***************************************************************************)
(* Model of backend/main.py: the account CRUD endpoints over the accounts  *)
(* table and the full-snapshot sync of that table to a Google Sheet.       *)
(*                                                                         *)
(* Spec      requests handled one at a time, each action a whole handler.  *)
(* SpecConc  requests handled on several worker threads, each handler      *)
(*           split at its database and Sheets API calls.                   *)
(***************************************************************************)
EXTENDS Integers, Sequences, FiniteSets, TLC

\* ---------------------------------------------------------------- bounds
\* Number of rows the id sequence of the table hands out in a run.
MaxId == 3
\* Worker threads and requests started in the concurrent specification.
NumThreads == 2
MaxRequests == 3

\* ---------------------------------------------------------------- values
\* Python None / SQL NULL, and a present Optional value.
None == <<>>
Some(v) == <<v>>

\* coalesce(v, d) of the snapshot query.
coalesce(v, d) == IF v = None THEN d ELSE v[1]

\* boolean::text of the snapshot query.
BoolText(b) == IF b THEN "true" ELSE "false"

\* to_char(ts, 'YYYY-MM-DD"T"HH24:MI:SS"Z"') of the snapshot query.
to_char(ts) == <<"YYYY-MM-DDTHH24:MI:SSZ", ts>>

HEADERS ==
    <<"id", "platform", "username", "email", "password", "phone", "note",
      "two_factor_enabled", "tags", "created_at", "updated_at">>

\* The fields of AccountIn; platform is the only required one.
PayloadFields ==
    {"platform", "username", "email", "password", "phone", "note",
     "two_factor_enabled", "tags"}

OptionalFields == PayloadFields \ {"platform"}

\* Field defaults of AccountIn.
FieldDefaultEmpty(f) == IF f = "two_factor_enabled" THEN Some(FALSE) ELSE Some("")

FieldDefault(f) == IF f = "two_factor_enabled" THEN Some(FALSE) ELSE None

\* Pydantic validation of a JSON body against AccountIn.
Valid(body) == "platform" \in DOMAIN body

\* payload.model_dump(): every field, omitted ones at their default.
model_dump(body) ==
    [f \in PayloadFields |->
        IF f \in DOMAIN body
        THEN (IF f = "platform" THEN body[f] ELSE Some(body[f]))
        ELSE FieldDefault(f)]

\* JSON request bodies the clients send.
BodyMinimal == [platform |-> "X"]
BodyFull ==
    [platform |-> "github", username |-> "alice", email |-> "a@gmail.com",
     password |-> "pw", phone |-> "555", note |-> "n",
     two_factor_enabled |-> TRUE, tags |-> "Work"]
BodyNoPlatform == [username |-> "bob"]
Bodies == {BodyMinimal, BodyFull, BodyNoPlatform}

\* Search keywords the clients send.
Keywords == {"gmail"}

\* ---------------------------------------------------------------- state
VARIABLES
    SPREADSHEET_ID,        \* None or the configured document id
    SERVICE_ACCOUNT_JSON,  \* None or a service-account key
    accounts,              \* the rows of table accounts
    nextId,                \* next value of the id sequence of the table
    doc,                   \* rows of range Accounts!A:Z of the document
    sheets_service,        \* the global _sheets_service: None or a client
    buildCount,            \* how many times build() returned a client
    resp,                  \* outcome of the latest request (sequential)
    pc,                    \* per thread: position in its handler
    local,                 \* per thread: the handler's local variables
    started,               \* requests started on the worker threads
    lastWritten,           \* body of the values.update call completed last
    syncFailed             \* some sync on a worker thread raised

vars ==
    <<SPREADSHEET_ID, SERVICE_ACCOUNT_JSON, accounts, nextId, doc,
      sheets_service, buildCount, resp, pc, local, started, lastWritten,
      syncFailed>>

config == <<SPREADSHEET_ID, SERVICE_ACCOUNT_JSON>>
threadVars == <<pc, local, started, lastWritten, syncFailed>>

Threads == 1 .. NumThreads

Ids(accts) == {a.id : a \in accts}

\* ---------------------------------------------------------------- table
\* insert into accounts (...) values (...) returning ...: the id comes from
\* the table's sequence and both timestamps from the store's clock, which
\* ticks with the sequence.
InsertedRow(dump, id) ==
    [id |-> id, platform |-> dump.platform, username |-> dump.username,
     email |-> dump.email, password |-> dump.password, phone |-> dump.phone,
     note |-> dump.note, two_factor_enabled |-> dump.two_factor_enabled,
     tags |-> dump.tags, created_at |-> id, updated_at |-> id]

\* update accounts set <the eight payload columns> where id = :id
UpdateRowKeepsTags(a, dump, id) ==
    IF a.id = id
    THEN [a EXCEPT !.platform = dump.platform, !.username = dump.username,
                   !.email = dump.email, !.password = dump.password,
                   !.phone = dump.phone, !.note = dump.note,
                   !.two_factor_enabled = dump.two_factor_enabled]
    ELSE a

UpdatedRow(a, dump, id) ==
    IF a.id = id
    THEN [a EXCEPT !.platform = dump.platform, !.username = dump.username,
                   !.email = dump.email, !.password = dump.password,
                   !.phone = dump.phone, !.note = dump.note,
                   !.two_factor_enabled = dump.two_factor_enabled,
                   !.tags = dump.tags]
    ELSE a

UpdateTable(accts, dump, id) == {UpdatedRow(a, dump, id) : a \in accts}

\* delete from accounts where id = :id
DeleteTable(accts, id) == {a \in accts : a.id # id}

\* The select list "id, platform, ..., updated_at" of a row, as the tuple
\* the driver returns.
SelectRow(a) ==
    <<a.id, a.platform, a.username, a.email, a.password, a.phone, a.note,
      a.two_factor_enabled, a.tags, a.created_at, a.updated_at>>

\* row_to_dict: zip the column names with the row tuple.
row_to_dict(row) ==
    [id |-> row[1], platform |-> row[2], username |-> row[3],
     email |-> row[4], password |-> row[5], phone |-> row[6],
     note |-> row[7], two_factor_enabled |-> row[8], tags |-> row[9],
     created_at |-> row[10], updated_at |-> row[11]]

\* order by id asc
RECURSIVE OrderByIdAsc(_)
OrderByIdAsc(accts) ==
    IF accts = {} THEN <<>>
    ELSE LET m == CHOOSE a \in accts : \A b \in accts : a.id <= b.id
         IN  <<m>> \o OrderByIdAsc(accts \ {m})

\* order by id desc
RECURSIVE OrderByIdDesc(_)
OrderByIdDesc(accts) ==
    IF accts = {} THEN <<>>
    ELSE LET m == CHOOSE a \in accts : \A b \in accts : a.id >= b.id
         IN  <<m>> \o OrderByIdDesc(accts \ {m})

\* order by updated_at desc (rows of equal updated_at by id)
RECURSIVE OrderByUpdatedAtDesc(_)
OrderByUpdatedAtDesc(accts) ==
    IF accts = {} THEN <<>>
    ELSE LET m == CHOOSE a \in accts : \A b \in accts :
                    \/ a.updated_at > b.updated_at
                    \/ (a.updated_at = b.updated_at /\ a.id >= b.id)
         IN  <<m>> \o OrderByUpdatedAtDesc(accts \ {m})

\* [row_to_dict(r) for r in rows], rows being the select of the table rows
\* in sequence s.
RowsToDicts(s) == [i \in 1 .. Len(s) |-> row_to_dict(SelectRow(s[i]))]

\* ---------------------------------------------------------------- search
\* The characters of the text values that occur in the run.
Chars(s) ==
    CASE s = "X" -> <<"X">>
      [] s = "x" -> <<"x">>
      [] s = "github" -> <<"g", "i", "t", "h", "u", "b">>
      [] s = "alice" -> <<"a", "l", "i", "c", "e">>
      [] s = "a@gmail.com" ->
            <<"a", "@", "g", "m", "a", "i", "l", ".", "c", "o", "m">>
      [] s = "gmail" -> <<"g", "m", "a", "i", "l">>
      [] s = "Work" -> <<"W", "o", "r", "k">>
      [] OTHER -> <<>>

\* Case folding of ilike.
Lower(c) == CASE c = "X" -> "x" [] c = "W" -> "w" [] OTHER -> c

LowerAll(cs) == [i \in 1 .. Len(cs) |-> Lower(cs[i])]

\* v ilike '%q%': NULL matches nothing.
ILike(v, q) ==
    /\ v # None
    /\ LET hay == LowerAll(Chars(v[1]))
           pin == LowerAll(Chars(q))
       IN  \E i \in 0 .. Len(hay) :
               /\ i + Len(pin) <= Len(hay)
               /\ SubSeq(hay, i + 1, i + Len(pin)) = pin

\* The where clause of search_accounts.
Matches(a, q) ==
    \/ ILike(Some(a.platform), q)
    \/ ILike(a.username, q)
    \/ ILike(a.email, q)
    \/ ILike(a.tags, q)

\* ---------------------------------------------------------------- sheet
\* One row of the snapshot query of sync_all_to_sheet, as list(r).
SheetRow(a) ==
    <<a.id, a.platform, coalesce(a.username, ""), coalesce(a.email, ""),
      coalesce(a.password, ""), coalesce(a.phone, ""), coalesce(a.note, ""),
      BoolText(coalesce(a.two_factor_enabled, FALSE)), coalesce(a.tags, ""),
      to_char(a.created_at), to_char(a.updated_at)>>

\* values = [HEADERS] + one list per row, order by id asc.
SnapshotValues(accts) ==
    LET rows == OrderByIdAsc(accts)
    IN  <<HEADERS>> \o [i \in 1 .. Len(rows) |-> SheetRow(rows[i])]

\* values().clear(range="Accounts!A:Z"): every row of the range is emptied.
ClearKeepsRows(d) == d

ClearRange(d) == <<>>

\* values().update(range="Accounts!A1", body=values): the rows of values
\* overwrite the rows they cover; rows below them keep their content.
UpdateRange(d, values) ==
    [i \in 1 .. (IF Len(d) > Len(values) THEN Len(d) ELSE Len(values)) |->
        IF i <= Len(values) THEN values[i] ELSE d[i]]

\* The document as found at start-up: an older, larger snapshot.
StaleRow(n) ==
    <<n, "old", "", "", "", "", "", "false", "", to_char(n), to_char(n)>>
StaleDoc ==
    <<HEADERS>> \o [i \in 1 .. MaxId + 1 |-> StaleRow(MaxId + i)]

\* ---------------------------------------------------------------- sync
\* build("sheets", "v4", credentials=creds): a new client object each time.
NewClient(n) == <<"sheets-v4", n + 1>>

\* get_sheets_service() with the global at svc after n builds: the client
\* it returns and the global it leaves, or the exception it raises.
get_sheets_service(svc, n) ==
    IF svc # None
    THEN [raised |-> FALSE, service |-> svc, builds |-> n, calls |-> <<>>]
    ELSE IF SERVICE_ACCOUNT_JSON = None
    THEN [raised |-> TRUE, service |-> svc, builds |-> n, calls |-> <<>>]
    ELSE [raised |-> FALSE, service |-> NewClient(n), builds |-> n + 1,
          calls |-> <<"build">>]

\* What the Sheets API may do with a call: serve it or fail it.
ApiResults == {"ok", "error"}

\* sync_all_to_sheet(db) past its SPREADSHEET_ID guard, against table accts,
\* document d and global svc after n builds: the snapshot query,
\* get_sheets_service, clear, update; every outcome the credential and the
\* Sheets API allow.
SyncConfigured(accts, d, svc, n) ==
    LET values == SnapshotValues(accts)
        got == get_sheets_service(svc, n)
    IN  IF got.raised
        THEN {[raised |-> TRUE, doc |-> d, service |-> got.service,
               builds |-> got.builds, calls |-> got.calls]}
        ELSE {[raised |-> TRUE, doc |-> d, service |-> got.service,
               builds |-> got.builds, calls |-> got.calls \o <<"clear">>],
              [raised |-> TRUE, doc |-> ClearRange(d),
               service |-> got.service, builds |-> got.builds,
               calls |-> got.calls \o <<"clear", "update">>],
              [raised |-> FALSE, doc |-> UpdateRange(ClearRange(d), values),
               service |-> got.service, builds |-> got.builds,
               calls |-> got.calls \o <<"clear", "update">>]}

SyncNoGuard(accts, d, svc, n) == SyncConfigured(accts, d, svc, n)

\* sync_all_to_sheet(db): nothing at all when SPREADSHEET_ID is unset.
sync_all_to_sheet(accts, d, svc, n) ==
    IF SPREADSHEET_ID = None
    THEN {[raised |-> FALSE, doc |-> d, service |-> svc, builds |-> n,
           calls |-> <<>>]}
    ELSE SyncConfigured(accts, d, svc, n)

\* ---------------------------------------------------------------- Init
\* What resp keeps of a request: the operation, the id of the row it names
\* or inserts, the JSON body, the HTTP status, the response body, the calls
\* made on the Sheets client library, and, for a list, the mutation
\* committed by the request handled just before it.
NoRequest == [op |-> "none", id |-> 0, body |-> BodyNoPlatform, status |-> 0]

Response(op, id, body, status, result, calls, after) ==
    [op |-> op, id |-> id, body |-> body, status |-> status,
     result |-> result, calls |-> calls, after |-> after]

NoResponse == Response("none", 0, BodyNoPlatform, 0, "none", <<>>, NoRequest)

\* Local variables of a handler running on a worker thread.
Frame(op, id, body) ==
    [op |-> op, id |-> id, body |-> body, values |-> <<>>, service |-> None]

Idle == Frame("none", 0, BodyNoPlatform)

Init ==
    /\ SPREADSHEET_ID \in {None, Some("sheet-1")}
    /\ SERVICE_ACCOUNT_JSON \in {None, Some("valid")}
    /\ accounts = {}
    /\ nextId = 1
    /\ doc = StaleDoc
    /\ sheets_service = None
    /\ buildCount = 0
    /\ resp = NoResponse
    /\ pc = [t \in Threads |-> "idle"]
    /\ local = [t \in Threads |-> Idle]
    /\ started = 0
    /\ lastWritten = <<>>
    /\ syncFailed = FALSE

\* ---------------------------------------------------------------- handlers
\* The table a mutating request leaves: db.commit() runs before
\* sync_all_to_sheet(db), so an exception of the sync finds the statement
\* committed.
StoreRolledBack(before, after, raised) == IF raised THEN before ELSE after

StoreAfter(before, after, raised) == after

\* The tail every mutating handler shares once its statement has produced
\* table `after`: commit, sync_all_to_sheet(db), then the response; an
\* exception of the sync ends the request as a 500.
CommitAndSync(op, id, body, data, after) ==
    \E o \in sync_all_to_sheet(after, doc, sheets_service, buildCount) :
        /\ accounts' = StoreAfter(accounts, after, o.raised)
        /\ doc' = o.doc
        /\ sheets_service' = o.service
        /\ buildCount' = o.builds
        /\ syncFailed' = (syncFailed \/ o.raised)
        /\ resp' = Response(op, id, body,
                            IF o.raised THEN 500 ELSE 200,
                            IF o.raised THEN "Internal Server Error" ELSE data,
                            o.calls, NoRequest)

\* A request that ends before it commits anything or reaches the sync.
Rejected(op, id, body, status, detail) ==
    /\ resp' = Response(op, id, body, status, detail, <<>>, NoRequest)
    /\ UNCHANGED <<accounts, nextId, doc, sheets_service, buildCount,
                   syncFailed>>

\* What a list response records of the request handled just before it, when
\* that request committed a mutation.
Before ==
    IF resp.status \in {200, 500} /\ resp.op \in {"create", "update", "delete"}
    THEN [op |-> resp.op, id |-> resp.id, body |-> resp.body,
          status |-> resp.status]
    ELSE NoRequest

\* GET /health
health ==
    /\ resp' = Response("health", 0, BodyNoPlatform, 200, [ok |-> TRUE],
                        <<>>, NoRequest)
    /\ UNCHANGED <<config, accounts, nextId, doc, sheets_service, buildCount,
                   threadVars>>

\* POST /accounts
create_account(body) ==
    /\ IF ~Valid(body)
       THEN Rejected("create", 0, body, 422, "validation error")
       ELSE /\ nextId <= MaxId
            /\ LET row == InsertedRow(model_dump(body), nextId)
               IN  /\ nextId' = nextId + 1
                   /\ CommitAndSync("create", row.id, body,
                                    row_to_dict(SelectRow(row)),
                                    accounts \cup {row})
    /\ UNCHANGED <<config, pc, local, started, lastWritten>>

\* GET /accounts
ListAscending(accts) == RowsToDicts(OrderByIdAsc(accts))

ListRows(accts) == RowsToDicts(OrderByIdDesc(accts))

list_accounts_then_sync ==
    /\ \E o \in sync_all_to_sheet(accounts, doc, sheets_service, buildCount) :
          /\ doc' = o.doc
          /\ sheets_service' = o.service
          /\ buildCount' = o.builds
          /\ resp' = Response("list", 0, BodyNoPlatform, 200,
                              ListRows(accounts), o.calls, Before)
    /\ UNCHANGED <<config, accounts, nextId, threadVars>>

list_accounts ==
    /\ resp' = Response("list", 0, BodyNoPlatform, 200, ListRows(accounts),
                        <<>>, Before)
    /\ UNCHANGED <<config, accounts, nextId, doc, sheets_service, buildCount,
                   threadVars>>

\* GET /accounts/search?q=
SearchRows(accts, q) ==
    RowsToDicts(OrderByUpdatedAtDesc({a \in accts : Matches(a, q)}))

search_accounts(q) ==
    /\ resp' = Response("search", 0, BodyNoPlatform, 200,
                        SearchRows(accounts, q), <<>>, NoRequest)
    /\ UNCHANGED <<config, accounts, nextId, doc, sheets_service, buildCount,
                   threadVars>>

\* row.rowcount / r.rowcount of "... where id = :id"
RowCount(accts, id) == Cardinality({a \in accts : a.id = id})

\* PUT /accounts/{account_id}
update_account(account_id, body) ==
    /\ IF ~Valid(body)
       THEN Rejected("update", account_id, body, 422, "validation error")
       ELSE IF RowCount(accounts, account_id) = 0
       THEN Rejected("update", account_id, body, 404, "Not found")
       ELSE LET after == UpdateTable(accounts, model_dump(body), account_id)
                row == CHOOSE a \in after : a.id = account_id
            IN  /\ nextId' = nextId
                /\ CommitAndSync("update", account_id, body,
                                 row_to_dict(SelectRow(row)), after)
    /\ UNCHANGED <<config, pc, local, started, lastWritten>>

\* DELETE /accounts/{account_id}
delete_account_unchecked(account_id) ==
    /\ nextId' = nextId
    /\ CommitAndSync("delete", account_id, BodyNoPlatform, [ok |-> TRUE],
                     DeleteTable(accounts, account_id))
    /\ UNCHANGED <<config, pc, local, started, lastWritten>>

delete_account(account_id) ==
    /\ IF RowCount(accounts, account_id) = 0
       THEN Rejected("delete", account_id, BodyNoPlatform, 404, "Not found")
       ELSE /\ nextId' = nextId
            /\ CommitAndSync("delete", account_id, BodyNoPlatform,
                             [ok |-> TRUE], DeleteTable(accounts, account_id))
    /\ UNCHANGED <<config, pc, local, started, lastWritten>>

\* Ids the clients name in a path: every id the sequence can hand out.
PathIds == 1 .. MaxId

Next ==
    \/ health
    \/ \E body \in Bodies : create_account(body)
    \/ list_accounts
    \/ \E q \in Keywords : search_accounts(q)
    \/ \E id \in PathIds, body \in Bodies : update_account(id, body)
    \/ \E id \in PathIds : delete_account(id)

Spec == Init /\ [][Next]_vars

\* ---------------------------------------------------------------- threads
\* FastAPI runs each "def" endpoint on a worker thread of its pool, so the
\* handlers of concurrent requests interleave at their database and Sheets
\* API calls.  A statement and its commit are one step of the store.
\* The request of thread t ends: its handler returns or raises.
Finish(t) ==
    /\ pc' = [pc EXCEPT ![t] = "idle"]
    /\ local' = [local EXCEPT ![t] = Idle]

\* POST /accounts up to db.commit()
t_create_account(t, body) ==
    /\ pc[t] = "idle" /\ started < MaxRequests
    /\ Valid(body)
    /\ nextId <= MaxId
    /\ started' = started + 1
    /\ accounts' = accounts \cup {InsertedRow(model_dump(body), nextId)}
    /\ nextId' = nextId + 1
    /\ pc' = [pc EXCEPT ![t] = "sync"]
    /\ local' = [local EXCEPT ![t] = Frame("create", nextId, body)]
    /\ UNCHANGED <<config, doc, sheets_service, buildCount, resp,
                   lastWritten, syncFailed>>

\* PUT /accounts/{account_id} up to db.commit(), or to its 404
t_update_account(t, account_id, body) ==
    /\ pc[t] = "idle" /\ started < MaxRequests
    /\ Valid(body)
    /\ started' = started + 1
    /\ IF RowCount(accounts, account_id) = 0
       THEN UNCHANGED <<accounts, pc, local>>
       ELSE /\ accounts' = UpdateTable(accounts, model_dump(body), account_id)
            /\ pc' = [pc EXCEPT ![t] = "sync"]
            /\ local' = [local EXCEPT ![t] = Frame("update", account_id, body)]
    /\ UNCHANGED <<config, nextId, doc, sheets_service, buildCount, resp,
                   lastWritten, syncFailed>>

\* DELETE /accounts/{account_id} up to db.commit(), or to its 404
t_delete_account(t, account_id) ==
    /\ pc[t] = "idle" /\ started < MaxRequests
    /\ started' = started + 1
    /\ IF RowCount(accounts, account_id) = 0
       THEN UNCHANGED <<accounts, pc, local>>
       ELSE /\ accounts' = DeleteTable(accounts, account_id)
            /\ pc' = [pc EXCEPT ![t] = "sync"]
            /\ local' = [local EXCEPT
                            ![t] = Frame("delete", account_id, BodyNoPlatform)]
    /\ UNCHANGED <<config, nextId, doc, sheets_service, buildCount, resp,
                   lastWritten, syncFailed>>

\* sync_all_to_sheet: the SPREADSHEET_ID guard and the snapshot query
t_sync_select(t) ==
    /\ pc[t] = "sync"
    /\ IF SPREADSHEET_ID = None
       THEN Finish(t)
       ELSE /\ pc' = [pc EXCEPT ![t] = "get_service"]
            /\ local' = [local EXCEPT ![t].values = SnapshotValues(accounts)]
    /\ UNCHANGED <<config, accounts, nextId, doc, sheets_service, buildCount,
                   resp, started, lastWritten, syncFailed>>

\* get_sheets_service: the test of the global and of the credential
t_get_service_test(t) ==
    /\ pc[t] = "get_service"
    /\ IF sheets_service # None
       THEN /\ pc' = [pc EXCEPT ![t] = "clear"]
            /\ local' = [local EXCEPT ![t].service = sheets_service]
            /\ UNCHANGED syncFailed
       ELSE IF SERVICE_ACCOUNT_JSON # None
       THEN /\ pc' = [pc EXCEPT ![t] = "build"]
            /\ UNCHANGED <<local, syncFailed>>
       ELSE /\ Finish(t)
            /\ syncFailed' = TRUE
    /\ UNCHANGED <<config, accounts, nextId, doc, sheets_service, buildCount,
                   resp, started, lastWritten>>

\* get_sheets_service: build the client, assign the global and return it
t_get_service_build(t) ==
    /\ pc[t] = "build"
    /\ sheets_service' = NewClient(buildCount)
    /\ buildCount' = buildCount + 1
    /\ pc' = [pc EXCEPT ![t] = "clear"]
    /\ local' = [local EXCEPT ![t].service = NewClient(buildCount)]
    /\ UNCHANGED <<config, accounts, nextId, doc, resp, started, lastWritten,
                   syncFailed>>

\* service.spreadsheets().values().clear(...).execute()
t_sync_clear(t) ==
    /\ pc[t] = "clear"
    /\ \E r \in ApiResults :
          IF r = "ok"
          THEN /\ doc' = ClearRange(doc)
               /\ pc' = [pc EXCEPT ![t] = "update"]
               /\ UNCHANGED <<local, syncFailed>>
          ELSE /\ Finish(t)
               /\ syncFailed' = TRUE
               /\ UNCHANGED doc
    /\ UNCHANGED <<config, accounts, nextId, sheets_service, buildCount, resp,
                   started, lastWritten>>

\* service.spreadsheets().values().update(...).execute()
t_sync_update(t) ==
    /\ pc[t] = "update"
    /\ \E r \in ApiResults :
          IF r = "ok"
          THEN /\ doc' = UpdateRange(doc, local[t].values)
               /\ lastWritten' = local[t].values
               /\ UNCHANGED syncFailed
          ELSE /\ syncFailed' = TRUE
               /\ UNCHANGED <<doc, lastWritten>>
    /\ Finish(t)
    /\ UNCHANGED <<config, accounts, nextId, sheets_service, buildCount, resp,
                   started>>

ValidBodies == {b \in Bodies : Valid(b)}

NextConc ==
    \/ \E t \in Threads, body \in ValidBodies : t_create_account(t, body)
    \/ \E t \in Threads, id \in PathIds, body \in ValidBodies :
            t_update_account(t, id, body)
    \/ \E t \in Threads, id \in PathIds : t_delete_account(t, id)
    \/ \E t \in Threads : t_sync_select(t)
    \/ \E t \in Threads : t_get_service_test(t)
    \/ \E t \in Threads : t_get_service_build(t)
    \/ \E t \in Threads : t_sync_clear(t)
    \/ \E t \in Threads : t_sync_update(t)

SpecConc == Init /\ [][NextConc]_vars

\* ---------------------------------------------------------------- claims
Mutations == {"create", "update", "delete"}
Reads == {"list", "search", "health"}

\* Ids the sequence has handed out whose rows are gone.
Deleted == (1 .. nextId - 1) \ Ids(accounts)

\* The payload columns of record r are the values of JSON body b.
HoldsPayload(r, b) == \A f \in PayloadFields : r[f] = model_dump(b)[f]

\* A create that sent the platform alone and was answered with a record.
CreatedFromPlatformOnly ==
    /\ resp.op = "create"
    /\ resp.status = 200
    /\ DOMAIN resp.body = {"platform"}

\* C1 as stated: a create that gives only the platform returns username,
\* email, password, phone, note and tags as the empty string,
\* two_factor_enabled false and a positive integer id.
C1_EmptyStringDefaults ==
    CreatedFromPlatformOnly =>
        /\ \A f \in OptionalFields \ {"two_factor_enabled"} :
                resp.result[f] = Some("")
        /\ resp.result.two_factor_enabled = Some(FALSE)
        /\ resp.result.id \in Nat \ {0}

\* C1 amended: a create that gives only the platform returns username,
\* email, password, phone, note and tags as null, two_factor_enabled false
\* and a positive integer id.
C1_NullDefaults ==
    CreatedFromPlatformOnly =>
        /\ \A f \in OptionalFields \ {"two_factor_enabled"} :
                resp.result[f] = None
        /\ resp.result.two_factor_enabled = Some(FALSE)
        /\ resp.result.id \in Nat \ {0}
        /\ resp.result.platform = resp.body.platform

C1_Witness == CreatedFromPlatformOnly /\ resp.result.id = MaxId

\* The positions of a list response that hold the record of id.
Hits(result, id) == {i \in 1 .. Len(result) : result[i].id = id}

\* C2: a successful update of a stored id leaves every other row of the
\* table as it was, and a list right after it returns exactly one record of
\* that id, whose payload fields are the values written.
C2_UpdateThenList ==
    [][/\ (resp'.op = "update" /\ resp'.status = 200) =>
            /\ \A a \in accounts : a.id # resp'.id => a \in accounts'
            /\ \A a \in accounts' : a.id # resp'.id => a \in accounts
            /\ Ids(accounts') = Ids(accounts)
       /\ (resp'.op = "list" /\ resp'.after.op = "update"
                             /\ resp'.after.status = 200) =>
            /\ Cardinality(Hits(resp'.result, resp'.after.id)) = 1
            /\ \A i \in Hits(resp'.result, resp'.after.id) :
                    HoldsPayload(resp'.result[i], resp'.after.body)
            /\ \A i \in 1 .. Len(resp'.result) :
                    \E a \in accounts : resp'.result[i] = a
      ]_vars

C2_Witness ==
    /\ resp.op = "list"
    /\ resp.after.op = "update"
    /\ resp.after.status = 200
    /\ resp.after.body = BodyMinimal
    /\ Len(resp.result) = MaxId

\* C3: update and delete of an id that is not in the table answer 404
\* "Not found", leave table, document and client as they were and call
\* nothing of the sync; an id once deleted stays absent, so every later
\* delete of it is such a request.
C3_NotFound ==
    [][/\ ( /\ resp'.op \in {"update", "delete"}
            /\ resp'.id \notin Ids(accounts)
            /\ (resp'.op = "update" => Valid(resp'.body)) ) =>
            /\ resp'.status = 404
            /\ resp'.result = "Not found"
            /\ resp'.calls = <<>>
            /\ UNCHANGED <<accounts, doc, sheets_service, buildCount>>
       /\ (resp'.op = "delete" /\ resp'.status \in {200, 500}) =>
            resp'.id \in Deleted'
       /\ Deleted \subseteq Deleted'
      ]_vars

C3_Witness ==
    /\ resp.op = "delete"
    /\ resp.status = 404
    /\ resp.id \in Deleted
    /\ accounts # {}

\* C4: a list returns every row of the table exactly once, ids strictly
\* descending; an inserted row gets an id above every id handed out before,
\* so rows inserted A, B, C are listed C, B, A.
C4_ListOrder ==
    [][/\ resp'.op = "list" =>
            /\ Len(resp'.result) = Cardinality(accounts')
            /\ \A a \in accounts' : Cardinality(Hits(resp'.result, a.id)) = 1
            /\ \A i \in 1 .. Len(resp'.result) :
                    \E a \in accounts' : resp'.result[i] = a
            /\ \A i \in 1 .. Len(resp'.result) - 1 :
                    resp'.result[i].id > resp'.result[i + 1].id
       /\ \A a \in accounts' :
            a.id \notin Ids(accounts) =>
                /\ \A b \in accounts : a.id > b.id
                /\ a.id \notin Deleted
                /\ a.id >= nextId
      ]_vars

C4_Witness ==
    /\ resp.op = "list"
    /\ Len(resp.result) = 3
    /\ resp.result[1].id = 3
    /\ resp.result[3].id = 1

\* C5: with SPREADSHEET_ID unset no request builds the Sheets client or
\* calls clear or update, the document stays as it was, and every create
\* and every update or delete of a stored id answers 200 with its mutation
\* in the table, whether or not the credential is set.
C5_DegradedMode ==
    [][SPREADSHEET_ID = None =>
        /\ sheets_service' = None
        /\ buildCount' = 0
        /\ doc' = StaleDoc
        /\ resp'.calls = <<>>
        /\ (resp'.op = "create" /\ Valid(resp'.body)) =>
                /\ resp'.status = 200
                /\ \E a \in accounts' :
                        a.id = resp'.id /\ HoldsPayload(a, resp'.body)
        /\ (resp'.op = "update" /\ Valid(resp'.body)
                                /\ resp'.id \in Ids(accounts)) =>
                /\ resp'.status = 200
                /\ \E a \in accounts' :
                        a.id = resp'.id /\ HoldsPayload(a, resp'.body)
        /\ (resp'.op = "delete" /\ resp'.id \in Ids(accounts)) =>
                /\ resp'.status = 200
                /\ resp'.id \notin Ids(accounts')
      ]_vars

C5_Witness ==
    /\ SPREADSHEET_ID = None
    /\ SERVICE_ACCOUNT_JSON = None
    /\ resp.op = "delete"
    /\ resp.status = 200
    /\ Cardinality(accounts) = MaxId - 1

\* The table holds the mutation that request r committed.
Committed(r, accts) ==
    IF r.op = "delete"
    THEN r.id \notin Ids(accts)
    ELSE \E a \in accts : a.id = r.id /\ HoldsPayload(a, r.body)

\* The list response result shows the mutation that request r committed.
Shown(r, result) ==
    IF r.op = "delete"
    THEN Hits(result, r.id) = {}
    ELSE \E i \in Hits(result, r.id) : HoldsPayload(result[i], r.body)

\* C6: a mutation whose sync raises is answered 500 and is not rolled back:
\* the table holds it and a list right after shows it; with the document
\* configured and the credential missing every committed mutation ends so.
C6_FailedSyncKeepsMutation ==
    /\ (resp.op \in Mutations /\ resp.status = 500) =>
            Committed(resp, accounts)
    /\ (resp.op = "list" /\ resp.after.status = 500) =>
            Shown(resp.after, resp.result)
    /\ ( /\ SPREADSHEET_ID # None
         /\ SERVICE_ACCOUNT_JSON = None
         /\ resp.op \in Mutations
         /\ resp.status \notin {404, 422} ) =>
            resp.status = 500 /\ Committed(resp, accounts)
    /\ (resp.op \in Mutations /\ resp.status = 200 /\ SPREADSHEET_ID # None) =>
            /\ Len(resp.calls) >= 2
            /\ resp.calls[Len(resp.calls)] = "update"

C6_Witness ==
    /\ resp.op = "list"
    /\ resp.after.op = "create"
    /\ resp.after.status = 500
    /\ SERVICE_ACCOUNT_JSON # None
    /\ Len(resp.result) = 2

\* C7: with the document configured, after a mutation whose sync raised
\* nothing the document is the header row followed by exactly one row per
\* row of the table, ids ascending, and no row more, also when an earlier
\* sync had failed.
C7_DocumentIsSnapshot ==
    ( /\ SPREADSHEET_ID # None
      /\ resp.op \in Mutations
      /\ resp.status = 200 ) =>
        /\ Len(doc) = Cardinality(accounts) + 1
        /\ doc[1] = HEADERS
        /\ \A a \in accounts : \E i \in 2 .. Len(doc) : doc[i] = SheetRow(a)
        /\ \A i \in 2 .. Len(doc) - 1 : doc[i][1] < doc[i + 1][1]

C7_Witness ==
    /\ SPREADSHEET_ID # None
    /\ syncFailed
    /\ resp.op = "delete"
    /\ resp.status = 200
    /\ Cardinality(accounts) = 1

\* C8: list, search and health leave the table, the id sequence, the
\* document and the Sheets client as they were and call nothing of the sync.
C8_ReadsChangeNothing ==
    [][resp'.op \in Reads =>
        /\ UNCHANGED <<accounts, nextId, doc, sheets_service, buildCount>>
        /\ resp'.calls = <<>>
      ]_vars

C8_Witness ==
    /\ resp.op = "search"
    /\ Len(resp.result) = 2
    /\ SPREADSHEET_ID # None
    /\ SERVICE_ACCOUNT_JSON # None
    /\ doc # SnapshotValues(accounts)

\* C9 as stated: once every request on the worker threads has finished and
\* no sync raised, the document is exactly the snapshot written by the
\* update call that completed last.
C9_LastSyncWins ==
    ( /\ \A t \in Threads : pc[t] = "idle"
      /\ ~syncFailed
      /\ lastWritten # <<>> ) =>
        doc = lastWritten

\* C10 as stated: the Sheets client is built at most once per process and
\* every call of get_sheets_service returns that one client.
C10_BuiltOnce ==
    /\ buildCount <= 1
    /\ \A t, u \in Threads :
            (local[t].service # None /\ local[u].service # None) =>
                local[t].service = local[u].service

====
